---- MODULE Spec2Model ----
(***************************************************************************)
(* A model of snapy/minhash.py: the shingle extractor (_k_shingles), the   *)
(* seed generator and the two signature computers (thread_multi_hash and   *)
(* _k_smallest_hash), and the constructor MinHash.__init__ that drives     *)
(* them, with the worker pool of the multi-hash method.                    *)
(*                                                                         *)
(* Text is a sequence of one-character strings.  Python's None is the      *)
(* empty sequence <<>> where an optional integer is held (seed) and the    *)
(* string "None" where a signature entry is held.                          *)
(***************************************************************************)
EXTENDS Integers, Sequences, FiniteSets, TLC

(* ------------------------------ bounds -------------------------------- *)

\* Longest document of the shingle-extractor specification.
MaxDocLen == 4
\* Largest n_gram tried.
MaxNGram == 2
\* Largest corpus handed to the constructor.
MaxDocs == 2
\* Largest number of permutations.
MaxPermutations == 2
\* Largest worker pool.
MaxJobs == 2
\* Longest shingle sequence handed directly to a signature computer.
MaxShingles == 3
\* Half the number of values a signed hash takes here (mmh3's 2^31, 2^63).
HashSpan == 3
\* Number of states of the process-wide random source (numpy's 2^19937).
RngMod == 3
\* Size of the range the hash seeds are drawn from (100_000_000 - 1 in the
\* code).
SeedRange == 3

(* ------------------------- Python list helpers ------------------------ *)

Min2(a, b) == IF a < b THEN a ELSE b

Max2(a, b) == IF a > b THEN a ELSE b

\* s[lo:hi] for 0 <= lo, 0 <= hi (0-based, end exclusive, clipped).
Slice(s, lo, hi) ==
    LET l == Min2(lo, Len(s))
        h == Min2(hi, Len(s))
    IN  IF h <= l THEN << >> ELSE [i \in 1..(h - l) |-> s[l + i]]

\* s[:stop] for any integer stop: a negative stop counts from the end.
SliceTo(s, stop) ==
    IF stop >= 0
    THEN Slice(s, 0, stop)
    ELSE Slice(s, 0, Max2(Len(s) + stop, 0))

Whitespace == {" "}

\* str.split(): the maximal runs of non-whitespace characters, in order.
RECURSIVE SplitFrom(_, _, _)
SplitFrom(text, i, cur) ==
    IF i > Len(text)
    THEN IF cur = << >> THEN << >> ELSE << cur >>
    ELSE IF text[i] \in Whitespace
         THEN IF cur = << >>
              THEN SplitFrom(text, i + 1, << >>)
              ELSE << cur >> \o SplitFrom(text, i + 1, << >>)
         ELSE SplitFrom(text, i + 1, Append(cur, text[i]))

Split(text) == SplitFrom(text, 1, << >>)

\* ' '.join(terms)
RECURSIVE Join(_)
Join(terms) ==
    IF terms = << >> THEN << >>
    ELSE IF Len(terms) = 1 THEN terms[1]
    ELSE terms[1] \o << " " >> \o Join(Tail(terms))

(* --------------------------- _k_shingles ------------------------------ *)

\* trim_overflow = (self.n_gram - 1) * -1
trim_overflow(n_gram) == (n_gram - 1) * (-1)

\* [text[char:char + n_gram] for char in range(len(text))][:trim_overflow]
CharShingles(text, n_gram) ==
    SliceTo([c \in 1..Len(text) |-> Slice(text, c - 1, c - 1 + n_gram)],
            trim_overflow(n_gram))

\* [' '.join(terms[term:term + n_gram]) for term in range(len(terms))]
\*     [:trim_overflow]
TermShingles(text, n_gram) ==
    LET terms == Split(text)
    IN  SliceTo([t \in 1..Len(terms) |->
                     Join(Slice(terms, t - 1, t - 1 + n_gram))],
                trim_overflow(n_gram))

\* The shingle list _k_shingles builds for one text.
DocShingles(text, n_gram, n_gram_type) ==
    IF n_gram_type = "char"
    THEN CharShingles(text, n_gram)
    ELSE TermShingles(text, n_gram)

(* ------------------------------ hashing ------------------------------- *)

CharCode(c) == IF c = "a" THEN 1 ELSE IF c = "b" THEN 2 ELSE 3

\* The mixing of a key and a seed that the three mmh3 functions share,
\* scaled down to 2 * HashSpan values.
RECURSIVE Mix(_, _, _)
Mix(key, h, mult) ==
    IF key = << >> THEN h % (2 * HashSpan)
    ELSE Mix(Tail(key), (h * mult + CharCode(Head(key))) % (2 * HashSpan), mult)

\* mmh3.hash(key, seed): a signed value.
mmh3_hash(key, seed) == Mix(key, seed, 3) - HashSpan

\* mmh3.hash64(key, seed)[0]: a signed value.
mmh3_hash64(key, seed) == Mix(key, seed + 1, 5) - HashSpan

\* mmh3.hash128(key, seed): an unsigned value.
mmh3_hash128(key, seed) == Mix(key, seed + 2, 7)

\* The if/elif/else on hash_bits of both signature computers.
HashValue(shingle, seed, hash_bits) ==
    IF hash_bits = 64 THEN mmh3_hash64(shingle, seed)
    ELSE IF hash_bits = 32 THEN mmh3_hash(shingle, seed)
    ELSE mmh3_hash128(shingle, seed)

(* -------------------------- thread_multi_hash ------------------------- *)

NoMin == [isNone |-> TRUE, v |-> 0]

\* `not _min_value`: None and 0 are both falsy.
NotMinValue(m) == m.isNone \/ m.v = 0

\* One pass of the inner loop body over a hash value.
MinStep(m, hash_value) ==
    IF NotMinValue(m) THEN [isNone |-> FALSE, v |-> hash_value]
    ELSE IF m.v > hash_value THEN [isNone |-> FALSE, v |-> hash_value]
    ELSE m

\* The inner loop: for shingle in document.
RECURSIVE ScanDocument(_, _, _, _)
ScanDocument(document, seed, hash_bits, m) ==
    IF document = << >> THEN m
    ELSE ScanDocument(Tail(document), seed, hash_bits,
                      MinStep(m, HashValue(Head(document), seed, hash_bits)))

\* signature.append(_min_value)
MinEntry(m) == IF m.isNone THEN "None" ELSE m.v

thread_multi_hash(document, hash_seeds, hash_bits) ==
    [j \in 1..Len(hash_seeds) |->
        MinEntry(ScanDocument(document, hash_seeds[j], hash_bits, NoMin))]

\* thread_multi_hash(*args)
thread_multi_hash_packed(packed) ==
    thread_multi_hash(packed[1], packed[2], packed[3])

(* --------------------------- _k_smallest_hash ------------------------- *)

\* heapq._siftdown(heap, 0, pos) on 1-based positions: newitem rises while
\* it is smaller than its parent.
RECURSIVE SiftDown(_, _, _)
SiftDown(heap, pos, newitem) ==
    IF pos > 1 /\ newitem < heap[pos \div 2]
    THEN SiftDown([heap EXCEPT ![pos] = heap[pos \div 2]], pos \div 2, newitem)
    ELSE [heap EXCEPT ![pos] = newitem]

\* heapq.heappush(heap, item)
heappush(heap, item) == SiftDown(Append(heap, item), Len(heap) + 1, item)

\* Insert x into the ascending sequence s, after its equals.
RECURSIVE InsertSorted(_, _)
InsertSorted(s, x) ==
    IF s = << >> THEN << x >>
    ELSE IF x < Head(s) THEN << x >> \o s
    ELSE << Head(s) >> \o InsertSorted(Tail(s), x)

RECURSIVE Sorted(_)
Sorted(s) == IF s = << >> THEN << >> ELSE InsertSorted(Sorted(Tail(s)), Head(s))

\* A faulty variant of nsmallest: the first n entries of the heap list as
\* they lie.
nsmallest_heap_prefix(n, s) == Slice(s, 0, n)

\* heapq.nsmallest(n, iterable): sorted(iterable)[:n]
nsmallest(n, s) == Slice(Sorted(s), 0, n)

\* The for loop of _k_smallest_hash: every shingle hashed and pushed.
RECURSIVE PushAll(_, _, _, _)
PushAll(document, seed, hash_bits, heap) ==
    IF document = << >> THEN heap
    ELSE PushAll(Tail(document), seed, hash_bits,
                 heappush(heap, HashValue(Head(document), seed, hash_bits)))

\* A faulty variant of TooFewShingles: a document of exactly `permutations`
\* shingles passes.
TooFewShinglesStrict(document, permutations) == Len(document) < permutations

\* The guard of _k_smallest_hash.
TooFewShingles(document, permutations) == Len(document) <= permutations

\* What _k_smallest_hash returns when its guard lets it through.
k_smallest_hash(document, seed, hash_bits, permutations) ==
    nsmallest(permutations, PushAll(document, seed, hash_bits, << >>))

(* --------------------------- seed generator --------------------------- *)

\* np.random.seed(seed): the state of the process-wide source after seeding.
np_random_seed(s) == s % RngMod

\* The number one np.random.randint(low=1, high=100_000_000) call returns
\* in state r.
RandintValue(r) == 1 + ((2 * r + 1) % SeedRange)

\* The state of the source after one draw.
RngNext(r) == (r + 1) % RngMod

\* np.random.randint(low, high, size=n): n draws, in order.
RandintArray(r, n) == [i \in 1..n |-> RandintValue((r + i - 1) % RngMod)]

RECURSIVE RngAfter(_, _)
RngAfter(r, n) == IF n = 0 THEN r ELSE RngAfter(RngNext(r), n - 1)

\* `if seed:` - None and 0 are both falsy.
SeedIsTruthy(seed) == seed # << >> /\ seed[1] # 0

\* The state of the random source once `if seed: np.random.seed(seed)` ran.
RngSeeded(seed, r) == IF SeedIsTruthy(seed) THEN np_random_seed(seed[1]) ELSE r

(* ------------------------------- numpy -------------------------------- *)

Unassigned == [assigned |-> FALSE, shape |-> << >>, rows |-> << >>]

\* np.array(signatures): an empty list gives the one-dimensional shape (0,),
\* a list of equally long rows the shape (len(rows), len(row)).
np_array(rows) ==
    [assigned |-> TRUE,
     shape |-> IF rows = << >> THEN << 0 >>
               ELSE IF \A i \in 1..Len(rows) : Len(rows[i]) = Len(rows[1])
                    THEN << Len(rows), Len(rows[1]) >>
                    ELSE << Len(rows) >>,
     rows |-> rows]

(* ------------------------- constructor arguments ---------------------- *)

Str_a == << "a" >>
Str_ab == << "a", "b" >>
Str_a_b_a == << "a", " ", "b", " ", "a" >>

SampleDocs == {Str_a, Str_ab, Str_a_b_a}

Corpora == UNION {[1..n -> SampleDocs] : n \in 0..MaxDocs}

\* The `text` argument: one string, or a list of strings.
TextArgs ==
    {[is_str |-> TRUE, val |-> d] : d \in SampleDocs}
        \cup {[is_str |-> FALSE, val |-> c] : c \in Corpora}

\* if type(texts) == str: texts = [texts]
Texts(text) == IF text.is_str THEN << text.val >> ELSE text.val

NGramTypes == {"char", "term", "word"}
HashBits == {16, 32, 64, 128}
Methods == {"multi_hash", "k_smallest_values", "min_wise"}
SeedArgs == {<< >>, << 0 >>, << 1 >>, << 2 >>}

\* is_literal: whether the method argument is the very string object the
\* literal 'multi_hash' of the module denotes, which `method is 'multi_hash'`
\* tests; an equal string built at run time is another object.
\* seed_coerces: whether the build's mmh3 accepts a one-element array as a
\* seed (it never accepts a longer one).
ArgSets ==
    [text : TextArgs, n_gram : 1..MaxNGram, n_gram_type : NGramTypes,
     permutations : 1..MaxPermutations, hash_bits : HashBits,
     method : Methods, seed : SeedArgs, n_jobs : 1..MaxJobs,
     is_literal : BOOLEAN, seed_coerces : BOOLEAN]

\* Whether the three validations of the constructor pass.
ValidConfiguration(a) ==
    /\ a.n_gram_type \in {"char", "term"}
    /\ a.hash_bits \in {32, 64, 128}
    /\ a.method \in {"multi_hash", "k_smallest_values"}

\* A field the code never reads, given the values of the other fields, is
\* held at one value: the flags of `is` and of the seed coercion, n_jobs
\* outside the pool branch, and everything but the validated fields of a
\* configuration that fails validation.
Canonical(a) ==
    /\ a.is_literal => a.method = "multi_hash"
    /\ a.seed_coerces =>
          (a.method = "multi_hash" /\ ~a.is_literal /\ a.permutations = 1)
    /\ a.n_jobs > 1 => a.is_literal
    /\ ~ValidConfiguration(a) =>
          /\ a.text = [is_str |-> FALSE, val |-> << >>]
          /\ a.n_gram = 1
          /\ a.permutations = 1
          /\ a.seed = << >>
          /\ ~a.is_literal

\* The arguments of the constructor specification.
Args == {a \in ArgSets : Canonical(a) /\ a.seed \in {<< >>, << 1 >>}}

\* The arguments of the reconstruction specification: every seed, over a
\* few corpora.
SeedTexts ==
    {[is_str |-> TRUE, val |-> Str_a_b_a],
     [is_str |-> FALSE, val |-> << Str_a_b_a, Str_a_b_a >>],
     [is_str |-> FALSE, val |-> << Str_a_b_a, Str_a >>]}

ArgsSeed ==
    {a \in ArgSets :
        /\ Canonical(a)
        /\ ValidConfiguration(a)
        /\ a.text \in SeedTexts
        /\ a.n_gram = MaxNGram
        /\ a.hash_bits = 64
        /\ a.n_gram_type = "char"
        /\ a.method = "multi_hash" => a.is_literal}

(* ---------------------------------------------------------------------- *)
(* The constructor as a state machine.                                     *)
(* ---------------------------------------------------------------------- *)

VARIABLES
    args,            \* the arguments of the construction in progress
    rng,             \* state of the process-wide random source
    pc,              \* where the constructor is
    hash_seeds,      \* self._hash_seeds: a sequence (array) or an integer
    gen,             \* texts the _k_shingles generator has consumed
    tasks,           \* pool.map's list of the generator's packed items
    pending,         \* indices of the tasks no worker has taken yet
    running,         \* the task index each worker holds, 0 when idle
    results,         \* the map result's slots, << >> while empty
    document,        \* the loop variable of the k-smallest branch
    signatures,      \* the local list of the k-smallest branch
    self_signatures, \* the attribute self.signatures
    raised,          \* the exception that ended the construction
    hashed,          \* hash calls made so far by this construction
    prev,            \* the previous construction of the process, if any
    fin,             \* input of a function-level specification
    fout             \* its output

ctor_vars == << args, rng, pc, hash_seeds, gen, tasks, pending, running,
                results, document, signatures, self_signatures, raised,
                hashed, prev >>

vars == << args, rng, pc, hash_seeds, gen, tasks, pending, running,
           results, document, signatures, self_signatures, raised,
           hashed, prev, fin, fout >>

NoPrev == [set |-> FALSE]

\* `method is 'multi_hash'`, as line 136 and line 222 both evaluate it.
MethodIsMultiHash(a) == a.method = "multi_hash" /\ a.is_literal

\* The state a construction starts in, whatever the random source holds.
Fresh ==
    /\ pc = "init"
    /\ hash_seeds = << >>
    /\ gen = 0
    /\ tasks = << >>
    /\ pending = {}
    /\ running = [w \in 1..MaxJobs |-> 0]
    /\ results = << >>
    /\ document = << >>
    /\ signatures = << >>
    /\ self_signatures = Unassigned
    /\ raised = "none"
    /\ hashed = 0

Init ==
    /\ args \in Args
    /\ rng \in 0..(RngMod - 1)
    /\ Fresh
    /\ prev = NoPrev
    /\ fin = << >>
    /\ fout = << >>

\* A faulty variant of Raise: the rows computed so far are stored on the
\* way out.
RaiseKeepingPartial(kind) ==
    /\ pc' = "raised"
    /\ raised' = kind
    /\ self_signatures' = np_array(signatures)

\* raise: the constructor ends and nothing after the raise runs.  The
\* attribute self.signatures keeps the value it has.
Raise(kind) ==
    /\ pc' = "raised"
    /\ raised' = kind
    /\ self_signatures' = self_signatures

\* Lines 101-134: the three validations, then the seed generator.
Configure ==
    /\ pc = "init"
    /\ IF \/ args.n_gram_type \notin {"char", "term"}
          \/ args.hash_bits \notin {32, 64, 128}
          \/ args.method \notin {"multi_hash", "k_smallest_values"}
       THEN /\ Raise("InvalidConfiguration")
            /\ UNCHANGED << rng, hash_seeds >>
       ELSE /\ pc' = "min_hash"
            /\ IF args.method = "multi_hash"
               THEN /\ hash_seeds' = RandintArray(RngSeeded(args.seed, rng),
                                                  args.permutations)
                    /\ rng' = RngAfter(RngSeeded(args.seed, rng),
                                       args.permutations)
               ELSE /\ hash_seeds' = RandintValue(RngSeeded(args.seed, rng))
                    /\ rng' = RngNext(RngSeeded(args.seed, rng))
            /\ UNCHANGED << raised, self_signatures >>
    /\ UNCHANGED << args, gen, tasks, pending, running, results, document,
                    signatures, hashed, prev, fin, fout >>

\* Line 136 only creates the generator; line 222 picks the branch of
\* _min_hash: Pool(n_jobs) and pool.map, or the sequential loop.
EnterMinHash ==
    /\ pc = "min_hash"
    /\ pc' = IF MethodIsMultiHash(args) THEN "map_listing" ELSE "loop"
    /\ UNCHANGED << args, rng, hash_seeds, gen, tasks, pending, running,
                    results, document, signatures, self_signatures, raised,
                    hashed, prev, fin, fout >>

\* The item the generator yields for a shingle list.
Yielded(shingles) ==
    IF MethodIsMultiHash(args)
    THEN << shingles, hash_seeds, args.hash_bits >>
    ELSE shingles

\* One resumption of the _k_shingles generator with a text left: the body
\* of its for loop (lines 155-174), under pool.map's list(iterable) or under
\* the for loop of line 228.
GeneratorNext ==
    /\ pc \in {"map_listing", "loop"}
    /\ gen < Len(Texts(args.text))
    /\ LET shingles == DocShingles(Texts(args.text)[gen + 1], args.n_gram,
                                   args.n_gram_type)
       IN  IF shingles = << >>
           THEN /\ Raise("InsufficientText")
                /\ UNCHANGED << gen, tasks, document >>
           ELSE /\ gen' = gen + 1
                /\ IF pc = "map_listing"
                   THEN /\ tasks' = Append(tasks, Yielded(shingles))
                        /\ pc' = pc
                        /\ UNCHANGED document
                   ELSE /\ document' = Yielded(shingles)
                        /\ pc' = "hashing"
                        /\ UNCHANGED tasks
                /\ UNCHANGED << raised, self_signatures >>
    /\ UNCHANGED << args, rng, hash_seeds, pending, running, results,
                    signatures, hashed, prev, fin, fout >>

\* Whether mmh3 takes self._hash_seeds as its seed argument: an integer
\* always, an array only when it has one element and the build coerces it.
SeedAccepted(a, seeds) ==
    a.method # "multi_hash" \/ (Len(seeds) = 1 /\ a.seed_coerces)

\* The integer mmh3 then hashes with.
SeedUsed(a, seeds) == IF a.method = "multi_hash" THEN seeds[1] ELSE seeds

\* A faulty variant of KSmallestDocument: the shingles are hashed before
\* the guard on their number is tested.
KSmallestDocumentHashFirst ==
    /\ pc = "hashing"
    /\ hashed' = hashed + Len(document)
    /\ IF TooFewShingles(document, args.permutations)
       THEN /\ Raise("PermutationsVsShingles")
            /\ UNCHANGED signatures
       ELSE IF ~SeedAccepted(args, hash_seeds)
       THEN /\ Raise("TypeError")
            /\ UNCHANGED signatures
       ELSE /\ signatures' =
                  Append(signatures,
                         k_smallest_hash(document, SeedUsed(args, hash_seeds),
                                         args.hash_bits, args.permutations))
            /\ pc' = "loop"
            /\ UNCHANGED << raised, self_signatures >>
    /\ UNCHANGED << args, rng, hash_seeds, gen, tasks, pending, running,
                    results, document, prev, fin, fout >>

\* Lines 229-230: self._k_smallest_hash(document) and the append.  The call
\* raises on a document with too few shingles before it hashes anything,
\* and mmh3 raises TypeError on a seed it cannot take.
KSmallestDocument ==
    /\ pc = "hashing"
    /\ IF TooFewShingles(document, args.permutations)
       THEN /\ Raise("PermutationsVsShingles")
            /\ UNCHANGED << signatures, hashed >>
       ELSE IF ~SeedAccepted(args, hash_seeds)
       THEN /\ Raise("TypeError")
            /\ UNCHANGED << signatures, hashed >>
       ELSE /\ signatures' =
                  Append(signatures,
                         k_smallest_hash(document, SeedUsed(args, hash_seeds),
                                         args.hash_bits, args.permutations))
            /\ hashed' = hashed + Len(document)
            /\ pc' = "loop"
            /\ UNCHANGED << raised, self_signatures >>
    /\ UNCHANGED << args, rng, hash_seeds, gen, tasks, pending, running,
                    results, document, prev, fin, fout >>

\* Lines 231 and 137: the generator is exhausted, the loop ends, and
\* self.signatures = np.array(signatures).
LoopReturn ==
    /\ pc = "loop"
    /\ gen = Len(Texts(args.text))
    /\ self_signatures' = np_array(signatures)
    /\ pc' = "done"
    /\ UNCHANGED << args, rng, hash_seeds, gen, tasks, pending, running,
                    results, document, signatures, raised, hashed, prev,
                    fin, fout >>

\* pool.map, once list(iterable) has exhausted the generator: one task per
\* item, tagged with the item's index, and one empty result slot each.
MapDispatch ==
    /\ pc = "map_listing"
    /\ gen = Len(Texts(args.text))
    /\ pending' = 1..Len(tasks)
    /\ results' = [i \in 1..Len(tasks) |-> << >>]
    /\ pc' = "map_running"
    /\ UNCHANGED << args, rng, hash_seeds, gen, tasks, running, document,
                    signatures, self_signatures, raised, hashed, prev,
                    fin, fout >>

\* An idle worker of Pool(n_jobs) takes any task not yet taken.
WorkerTake(w) ==
    /\ pc = "map_running"
    /\ w <= args.n_jobs
    /\ running[w] = 0
    /\ \E i \in pending :
          /\ running' = [running EXCEPT ![w] = i]
          /\ pending' = pending \ {i}
    /\ UNCHANGED << args, rng, pc, hash_seeds, gen, tasks, results, document,
                    signatures, self_signatures, raised, hashed, prev,
                    fin, fout >>

\* A faulty variant of StoreResult: results are kept in the order they arrive.
StoreResultOnArrival(slots, i, value) ==
    LET free == {k \in 1..Len(slots) : slots[k] = << >>}
        first == CHOOSE k \in free : \A m \in free : k <= m
    IN  [slots EXCEPT ![first] = value]

\* Where the result of the task with index i goes: its own slot.
StoreResult(slots, i, value) == [slots EXCEPT ![i] = value]

\* A worker ends thread_multi_hash_packed on its task and the result is
\* put in the map result.
WorkerFinish(w) ==
    /\ pc = "map_running"
    /\ running[w] # 0
    /\ results' = StoreResult(results, running[w],
                              thread_multi_hash_packed(tasks[running[w]]))
    /\ hashed' = hashed + Len(tasks[running[w]][1]) * Len(tasks[running[w]][2])
    /\ running' = [running EXCEPT ![w] = 0]
    /\ UNCHANGED << args, rng, pc, hash_seeds, gen, tasks, pending, document,
                    signatures, self_signatures, raised, prev, fin, fout >>

\* Whether pool.map may return: every task was taken and ended.
MapComplete ==
    /\ pending = {}
    /\ \A w \in 1..MaxJobs : running[w] = 0

\* Lines 224-225 and 137: pool.map returns the slots in index order and
\* self.signatures = np.array(signatures).
MapReturn ==
    /\ pc = "map_running"
    /\ MapComplete
    /\ self_signatures' = np_array(results)
    /\ pc' = "done"
    /\ UNCHANGED << args, rng, hash_seeds, gen, tasks, pending, running,
                    results, document, signatures, raised, hashed, prev,
                    fin, fout >>

\* The same process constructs MinHash once more with the same arguments:
\* only the random source carries over.
Reconstruct ==
    /\ pc \in {"done", "raised"}
    /\ ~prev.set
    /\ prev' = [set |-> TRUE, pc |-> pc, hash_seeds |-> hash_seeds,
                self_signatures |-> self_signatures, raised |-> raised]
    /\ pc' = "init"
    /\ hash_seeds' = << >>
    /\ gen' = 0
    /\ tasks' = << >>
    /\ pending' = {}
    /\ running' = [w \in 1..MaxJobs |-> 0]
    /\ results' = << >>
    /\ document' = << >>
    /\ signatures' = << >>
    /\ self_signatures' = Unassigned
    /\ raised' = "none"
    /\ hashed' = 0
    /\ UNCHANGED << args, rng, fin, fout >>

Next ==
    \/ Configure
    \/ EnterMinHash
    \/ GeneratorNext
    \/ KSmallestDocument
    \/ LoopReturn
    \/ MapDispatch
    \/ \E w \in 1..MaxJobs : WorkerTake(w)
    \/ \E w \in 1..MaxJobs : WorkerFinish(w)
    \/ MapReturn

Spec == Init /\ [][Next]_vars

(* ---------------------------------------------------------------------- *)
(* Two constructions in one process.                                       *)
(* ---------------------------------------------------------------------- *)

InitSeed ==
    /\ args \in ArgsSeed
    /\ rng \in 0..(RngMod - 1)
    /\ Fresh
    /\ prev = NoPrev
    /\ fin = << >>
    /\ fout = << >>

NextSeed ==
    \/ Configure
    \/ EnterMinHash
    \/ GeneratorNext
    \/ KSmallestDocument
    \/ LoopReturn
    \/ MapDispatch
    \/ \E w \in 1..MaxJobs : WorkerTake(w)
    \/ \E w \in 1..MaxJobs : WorkerFinish(w)
    \/ MapReturn
    \/ Reconstruct

SpecSeed == InitSeed /\ [][NextSeed]_vars

(* ---------------------------------------------------------------------- *)
(* The functions on their own: each specification draws the arguments of  *)
(* one call and makes the call.  No constructor runs.                     *)
(* ---------------------------------------------------------------------- *)

NoConstruction ==
    /\ args = << >>
    /\ rng = 0
    /\ Fresh
    /\ prev = NoPrev

NotCalled == [called |-> FALSE]

Alphabet == {"a", "b", " "}

\* Every text of at most n characters.
Strings(n) == UNION {[1..k -> Alphabet] : k \in 0..n}

(* _k_shingles on one text *)

InitShingles ==
    /\ NoConstruction
    /\ fin \in [text : Strings(MaxDocLen), n_gram : 1..MaxNGram,
                n_gram_type : {"char", "term"}]
    /\ fout = NotCalled

\* One pass of the for loop of _k_shingles (lines 155-174) on fin.text:
\* the shingle list is yielded, or ValueError is raised when it is empty.
CallKShingles ==
    /\ ~fout.called
    /\ LET shingles == DocShingles(fin.text, fin.n_gram, fin.n_gram_type)
       IN  fout' = [called |-> TRUE, raised |-> (shingles = << >>),
                    shingles |-> shingles]
    /\ UNCHANGED << fin, ctor_vars >>

NextShingles == CallKShingles

SpecShingles == InitShingles /\ [][NextShingles]_vars

(* thread_multi_hash on one document, and on another with the same
   shingles *)

ShingleUniverse == {<< "a" >>, << "b" >>, << "a", "b" >>}

\* Every non-empty shingle sequence of at most MaxShingles shingles.
ShingleSequences == UNION {[1..k -> ShingleUniverse] : k \in 1..MaxShingles}

SeedValues == 1..SeedRange

SeedLists == UNION {[1..k -> SeedValues] : k \in 1..MaxPermutations}

Elements(seq) == {seq[i] : i \in 1..Len(seq)}

InitMultiHash ==
    /\ NoConstruction
    /\ fin \in {f \in [document : ShingleSequences, other : ShingleSequences,
                       hash_seeds : SeedLists, hash_bits : {32, 64, 128}] :
                   Elements(f.document) = Elements(f.other)}
    /\ fout = NotCalled

\* thread_multi_hash (lines 33-54) called on fin.document and on fin.other.
CallMultiHash ==
    /\ ~fout.called
    /\ fout' = [called |-> TRUE,
                signature |-> thread_multi_hash(fin.document, fin.hash_seeds,
                                                fin.hash_bits),
                other_signature |-> thread_multi_hash(fin.other,
                                                      fin.hash_seeds,
                                                      fin.hash_bits)]
    /\ UNCHANGED << fin, ctor_vars >>

NextMultiHash == CallMultiHash

SpecMultiHash == InitMultiHash /\ [][NextMultiHash]_vars

(* _k_smallest_hash on one document *)

InitKSmallest ==
    /\ NoConstruction
    /\ fin \in [document : ShingleSequences, seed : SeedValues,
                hash_bits : {32, 64, 128}, permutations : 1..MaxPermutations]
    /\ fout = NotCalled

\* _k_smallest_hash (lines 191-212) called on fin.document.
CallKSmallest ==
    /\ ~fout.called
    /\ IF TooFewShingles(fin.document, fin.permutations)
       THEN fout' = [called |-> TRUE, raised |-> TRUE, signature |-> << >>]
       ELSE fout' = [called |-> TRUE, raised |-> FALSE,
                     signature |-> k_smallest_hash(fin.document, fin.seed,
                                                   fin.hash_bits,
                                                   fin.permutations)]
    /\ UNCHANGED << fin, ctor_vars >>

NextKSmallest == CallKSmallest

SpecKSmallest == InitKSmallest /\ [][NextKSmallest]_vars

(* ---------------------------------------------------------------------- *)
(* Properties.                                                             *)
(* ---------------------------------------------------------------------- *)

\* The least element of a non-empty set of integers.
SetMin(S) == CHOOSE m \in S : \A x \in S : m <= x

\* How often v occurs in seq.
Count(seq, v) == Cardinality({i \in 1..Len(seq) : seq[i] = v})

\* The texts of the construction in progress and the shingle list of each.
CorpusTexts == Texts(args.text)

ShinglesOf(i) == DocShingles(CorpusTexts[i], args.n_gram, args.n_gram_type)

ShingleCount(i) == Len(ShinglesOf(i))

\* The hash calls the sequential loop makes on the first k documents.
RECURSIVE HashedThrough(_)
HashedThrough(k) == IF k = 0 THEN 0 ELSE HashedThrough(k - 1) + ShingleCount(k)

(* C1: the multi-hash signature has one entry per seed, in the order of the
   seeds, and entry j is the minimum over the shingles of the document of
   hash(shingle, seed_j), whatever the hash values are (0 and negative
   values included). *)
C1_SignatureIsPerSeedMinimum ==
    fout.called =>
        /\ Len(fout.signature) = Len(fin.hash_seeds)
        /\ \A j \in 1..Len(fin.hash_seeds) :
              fout.signature[j] =
                  SetMin({HashValue(sh, fin.hash_seeds[j], fin.hash_bits) :
                             sh \in Elements(fin.document)})

(* C2: for every n_gram >= 1 and every text at least n_gram long, char mode
   raises nothing and yields len - n_gram + 1 shingles, the i-th being the
   n_gram characters from offset i; term mode, on a text of at least n_gram
   terms, yields terms - n_gram + 1 shingles, the i-th being n_gram
   consecutive terms joined by single spaces. *)
C2_ShingleWindows ==
    (fout.called /\ Len(fin.text) >= fin.n_gram) =>
        IF fin.n_gram_type = "char"
        THEN /\ ~fout.raised
             /\ Len(fout.shingles) = Len(fin.text) - fin.n_gram + 1
             /\ \A i \in 1..Len(fout.shingles) :
                   fout.shingles[i] = SubSeq(fin.text, i, i + fin.n_gram - 1)
        ELSE Len(Split(fin.text)) >= fin.n_gram =>
             /\ ~fout.raised
             /\ Len(fout.shingles) = Len(Split(fin.text)) - fin.n_gram + 1
             /\ \A i \in 1..Len(fout.shingles) :
                   fout.shingles[i] =
                       Join(SubSeq(Split(fin.text), i, i + fin.n_gram - 1))

(* C3: a second construction with the same explicitly supplied seed (0
   included) and the same other arguments has the same hash seeds as the
   first and, when it ends, the same signature matrix, whatever state the
   process-wide random source was in. *)
C3_SameSeedSameResult ==
    (prev.set /\ args.seed # << >> /\ pc # "init") =>
        /\ hash_seeds = prev.hash_seeds
        /\ pc \in {"done", "raised"} =>
              /\ pc = prev.pc
              /\ self_signatures = prev.self_signatures

(* C4, as stated: whenever a construction ends in an error, no shingle of
   any document has been hashed. *)
C4_NoHashingBeforeAnyError == pc = "raised" => hashed = 0

(* C4, amended: an invalid configuration, and in the pool branch of
   multi_hash a document without shingles, raise before any shingle is
   hashed; in the sequential loop the error of a document is raised when
   every shingle of the documents before it has been hashed and none of its
   own or of a later document. *)
C4_ErrorBeforeOffendingDocument ==
    pc = "raised" =>
        IF raised = "InvalidConfiguration" \/ MethodIsMultiHash(args)
        THEN hashed = 0
        ELSE /\ Len(signatures) < Len(CorpusTexts)
             /\ hashed = HashedThrough(Len(signatures))
             /\ \/ ShingleCount(Len(signatures) + 1) <= args.permutations
                \/ ~SeedAccepted(args, hash_seeds)

C4_Witness ==
    /\ pc = "raised"
    /\ args.method = "k_smallest_values"
    /\ Len(signatures) = 1
    /\ hashed > 0

(* C5: in the pool branch every filled result slot i, and at the end row i
   of the matrix, is thread_multi_hash of document i's shingles, whichever
   worker took which task in which order; the matrix is assigned only when
   every task has been taken and has ended. *)
C5_RowsFollowDocuments ==
    (MethodIsMultiHash(args) /\ pc \in {"map_running", "done"}) =>
        /\ Len(results) = Len(CorpusTexts)
        /\ \A i \in 1..Len(results) :
              results[i] # << >> =>
                  results[i] = thread_multi_hash(ShinglesOf(i), hash_seeds,
                                                 args.hash_bits)
        /\ self_signatures.assigned =>
              /\ MapComplete
              /\ \A i \in 1..Len(results) : results[i] # << >>
              /\ self_signatures.rows =
                    [i \in 1..Len(CorpusTexts) |->
                        thread_multi_hash(ShinglesOf(i), hash_seeds,
                                          args.hash_bits)]

C5_Witness ==
    /\ pc = "done"
    /\ MethodIsMultiHash(args)
    /\ args.n_jobs = 2
    /\ Len(self_signatures.rows) = 2
    /\ self_signatures.rows[1] # self_signatures.rows[2]

(* C6, as stated: a k_smallest_values construction of a valid configuration
   ends with the permutations-vs-shingles error if and only if some
   document has at most `permutations` shingles. *)
C6_PermutationsErrorIffShortDocument ==
    (args.method = "k_smallest_values" /\ ValidConfiguration(args)
        /\ pc \in {"done", "raised"}) =>
        (raised = "PermutationsVsShingles"
            <=> \E i \in 1..Len(CorpusTexts) :
                    ShingleCount(i) <= args.permutations)

(* C6, amended: a k_smallest_values construction of a valid configuration
   fails if and only if some document has at most `permutations` shingles,
   each document checked against its own count; the error is the
   permutations-vs-shingles error when the first such document has a
   shingle and InsufficientText when it has none. *)
C6_FailsIffShortDocument ==
    (args.method = "k_smallest_values" /\ ValidConfiguration(args)
        /\ pc \in {"done", "raised"}) =>
        LET short == {i \in 1..Len(CorpusTexts) :
                         ShingleCount(i) <= args.permutations}
        IN  /\ pc = "raised" <=> short # {}
            /\ pc = "raised" =>
                  raised = IF ShingleCount(SetMin(short)) = 0
                           THEN "InsufficientText"
                           ELSE "PermutationsVsShingles"

C6_Witness ==
    /\ args.method = "k_smallest_values"
    /\ pc = "raised"
    /\ raised = "PermutationsVsShingles"
    /\ gen = 2
    /\ ShingleCount(1) > args.permutations
    /\ ShingleCount(2) = args.permutations

(* C7: on a document of more than `permutations` shingles, the k-smallest
   signature has `permutations` entries in non-decreasing order and is, as
   a multiset, the `permutations` smallest of the hash values of the
   shingle occurrences of the document. *)
C7_SignatureIsKSmallest ==
    (fout.called /\ Len(fin.document) > fin.permutations) =>
        LET H == [i \in 1..Len(fin.document) |->
                     HashValue(fin.document[i], fin.seed, fin.hash_bits)]
            sig == fout.signature
        IN  /\ ~fout.raised
            /\ Len(sig) = fin.permutations
            /\ \A i \in 1..(Len(sig) - 1) : sig[i] <= sig[i + 1]
            /\ \A i \in 1..Len(sig) : Count(sig, sig[i]) <= Count(H, sig[i])
            /\ \A i \in 1..Len(H) :
                  Count(H, H[i]) > Count(sig, H[i]) => H[i] >= sig[Len(sig)]

C7_Witness ==
    /\ fout.called
    /\ ~fout.raised
    /\ fin.permutations = 2
    /\ Len(fin.document) = 3
    /\ fin.document[1] = fin.document[3]
    /\ fout.signature[1] = fout.signature[2]
    /\ HashValue(fin.document[2], fin.seed, fin.hash_bits) > fout.signature[2]

(* C8: every construction that succeeds, on a corpus of n >= 0 documents or
   on a single string (n = 1), leaves a matrix of shape
   (n, permutations). *)
C8_MatrixShape ==
    pc = "done" =>
        /\ self_signatures.assigned
        /\ self_signatures.shape = << Len(CorpusTexts), args.permutations >>

(* C9: a construction that ends in an error never assigns self.signatures:
   no matrix of the rows computed before the error is stored. *)
C9_NoMatrixAfterError == pc = "raised" => ~self_signatures.assigned

C9_Witness ==
    /\ pc = "raised"
    /\ raised \in {"InsufficientText", "PermutationsVsShingles"}
    /\ signatures # << >>

(* C10: two shingle sequences with the same set of distinct shingles have
   the same multi-hash signature under the same seeds and hash width. *)
C10_SignatureDependsOnShingleSet ==
    fout.called => fout.signature = fout.other_signature

====
